---- MODULE Spec2Model ----
(***************************************************************************)
(* The wishlist backend (gin handlers over a gorm/PostgreSQL store) as a   *)
(* state machine.  The state is the five tables the handlers read and      *)
(* write, the PurchaseItem requests in flight (one step per database       *)
(* call, so that concurrent requests interleave between their calls), and  *)
(* what clients hold: the share links handed out and the purchases that   *)
(* were answered 200.  The other handlers answer within one step:          *)
(* their responses are operators of the tables and the request.  Every     *)
(* database call can fail: the failing call of a request is an input of    *)
(* the request, drawn by Next.                                             *)
(***************************************************************************)
EXTENDS Integers, FiniteSets, TLC

\* ------------------------------------------------------------------ bounds
MaxWishlists == 2
MaxItems == 2
MaxShares == 2
MaxPurchases == 2

\* ------------------------------------------------------- program constants
StatusOK == 200
StatusBadRequest == 400
StatusUnauthorized == 401
StatusForbidden == 403
StatusNotFound == 404
StatusGone == 410
StatusInternalServerError == 500

\* ------------------------------------------------------------------ inputs
Users == {"u1", "u2"}
\* A request without a credential; also "userID" absent from the gin context.
NoUser == "anonymous"
Callers == Users \cup {NoUser}
\* Request bodies: "" is a missing required field (binding:"required").
Titles == {"", "Bike"}
Names == {"", "Trek 520"}
\* The PurchaseItem requests that can be in flight together.
Slots == {"r1", "r2"}
\* Share.ExpiresAt against the clock of a request: the Go zero value (never
\* set) or a time that has passed.
ZeroTime == "zero"
PastTime == "past"

VARIABLES wishlists, items, purchases, shares, reqs, issued, succeeded

vars == <<wishlists, items, purchases, shares, reqs, issued, succeeded>>

\* ----------------------------------------------------------------- storage
\* uuid.New(): an id no row of the table has (rows are never deleted).
NewID(table) == Cardinality(table) + 1

\* DB.Where("id = ?", id).First(&row): the rows the query matches.
ByID(table, id) == {row \in table : row.ID = id}

\* Preload("Items") without the foreign key: every item row.
ItemsOf_AnyWishlist(wid) == items

\* Preload("Items"): the items of a wishlist.
ItemsOf(wid) == {i \in items : i.WishlistID = wid}
\* Preload("Items.Purchases"): the purchases of an item.
PurchasesOf(iid) == {p \in purchases : p.ItemID = iid}

\* gin.H{"error": msg}
Error(status, msg) == [status |-> status, body |-> [error |-> msg]]

\* A PurchaseItem slot with no request in it.  A request is where it stands in
\* the handler (pc), the credential it came with, the identity and the item id
\* it runs with, and its response status once it has answered.
IdleReq == [pc |-> "idle", cred |-> NoUser, userID |-> NoUser, itemID |-> 0,
            status |-> 0, prior |-> FALSE]

\* ------------------------------------------------------------------- Init
\* The database as ConnectDatabase finds it after Migrate: empty, or holding
\* a wishlist with a share row whose expires_at column was set and has passed
\* (the column exists in the schema; no handler writes it).
EmptyDB == [wishlists |-> {}, shares |-> {}]
SeededDB ==
    [wishlists |-> {[ID |-> 1, UserID |-> "u1", Title |-> "Bike",
                     Description |-> "", CreatedAt |-> "ts"]},
     shares |-> {[ID |-> 1, WishlistID |-> 1, Token |-> 1, ExpiresAt |-> PastTime]}]

Init ==
    /\ \E d \in {EmptyDB, SeededDB} :
        /\ wishlists = d.wishlists
        /\ shares = d.shares
    /\ items = {}
    /\ purchases = {}
    /\ reqs = [r \in Slots |-> IdleReq]
    /\ issued = {}
    /\ succeeded = {}

\* ------------------------------------------------------------- middleware
\* AuthMiddleware: resolves the Bearer credential to the caller's identity and
\* stores it under "userID", or aborts the request with 401.
AuthMiddleware(cred) ==
    IF cred = NoUser
    THEN [abort |-> TRUE, userID |-> NoUser]
    ELSE [abort |-> FALSE, userID |-> cred]

MiddlewareAbort == Error(StatusUnauthorized, "Unauthorized")

\* SetupRoutes: the group a path is registered in decides whether the
\* middleware runs.  "protected" runs AuthMiddleware; the public group runs
\* nothing, so "userID" is never set for its handlers.
RouteGroup(path) ==
    IF path = "/shared/:token" THEN "api" ELSE "protected"

\* The context a handler of `path` sees for a request with credential `cred`.
RouteContext(path, cred) ==
    IF RouteGroup(path) = "protected"
    THEN AuthMiddleware(cred)
    ELSE [abort |-> FALSE, userID |-> NoUser]

\* ------------------------------------------------------- wishlist handlers
\* CreateWishlist: the response, and the row it inserts (or none).
CreateWishlist(userID, title, dbErr) ==
    LET wishlist == [ID |-> NewID(wishlists), UserID |-> userID, Title |-> title,
                     Description |-> "", CreatedAt |-> "ts"]
    IN  IF title = ""
        THEN Error(StatusBadRequest, "binding") @@ [created |-> {}]
        ELSE IF userID = NoUser
        THEN Error(StatusUnauthorized, "User not authenticated") @@ [created |-> {}]
        ELSE IF dbErr = 1
        THEN Error(StatusInternalServerError, "Error creating wishlist") @@ [created |-> {}]
        ELSE [status |-> StatusOK, body |-> [wishlist |-> wishlist],
              created |-> {wishlist}]

\* OwnerItem with the purchasers of the item added to the view.
OwnerItem_WithPurchasers(item) ==
    [id |-> item.ID, name |-> item.Name, description |-> item.Description,
     purchased |-> item.Purchased, created_at |-> item.CreatedAt,
     purchased_by |-> {p.UserID : p \in PurchasesOf(item.ID)}]

\* The item of the owner view: gin.H with id, name, description, purchased,
\* created_at.
OwnerItem(item) ==
    [id |-> item.ID, name |-> item.Name, description |-> item.Description,
     purchased |-> item.Purchased, created_at |-> item.CreatedAt]

\* The 200 response of GetWishlist: the owner view.
OwnerView(wishlist) ==
    [status |-> StatusOK,
     body |-> [id |-> wishlist.ID, title |-> wishlist.Title,
               description |-> wishlist.Description,
               created_at |-> wishlist.CreatedAt,
               items |-> {OwnerItem(i) : i \in ItemsOf(wishlist.ID)}]]

\* GetWishlist without its ownership check.
GetWishlist_NoOwnerCheck(userID, wishlistID, dbErr) ==
    IF userID = NoUser
    THEN Error(StatusUnauthorized, "User not authenticated")
    ELSE IF dbErr = 1
    THEN Error(StatusInternalServerError, "Error fetching wishlist")
    ELSE IF ByID(wishlists, wishlistID) = {}
    THEN Error(StatusNotFound, "Wishlist not found")
    ELSE OwnerView(CHOOSE w \in ByID(wishlists, wishlistID) : TRUE)

\* GetWishlist: the response.
GetWishlist(userID, wishlistID, dbErr) ==
    IF userID = NoUser
    THEN Error(StatusUnauthorized, "User not authenticated")
    ELSE IF dbErr = 1
    THEN Error(StatusInternalServerError, "Error fetching wishlist")
    ELSE IF ByID(wishlists, wishlistID) = {}
    THEN Error(StatusNotFound, "Wishlist not found")
    ELSE LET wishlist == CHOOSE w \in ByID(wishlists, wishlistID) : TRUE
         IN  IF wishlist.UserID # userID
             THEN Error(StatusForbidden, "Access denied")
             ELSE OwnerView(wishlist)

\* ShareWishlist looking the wishlist up by id and owner together
\* (Where("id = ? AND user_id = ?")), and refusing when nothing matches.
ShareWishlist_OwnerFirst(userID, wishlistID, dbErr) ==
    IF userID = NoUser
    THEN Error(StatusUnauthorized, "User not authenticated") @@ [created |-> {}]
    ELSE IF dbErr = 1
    THEN Error(StatusInternalServerError, "Error fetching wishlist") @@ [created |-> {}]
    ELSE IF {w \in ByID(wishlists, wishlistID) : w.UserID = userID} = {}
    THEN Error(StatusForbidden, "Only the creator can share the wishlist")
         @@ [created |-> {}]
    ELSE LET share == [ID |-> NewID(shares), WishlistID |-> wishlistID,
                       Token |-> NewID(shares), ExpiresAt |-> ZeroTime]
         IN  IF dbErr = 2
             THEN Error(StatusInternalServerError, "Error generating shareable link")
                  @@ [created |-> {}]
             ELSE [status |-> StatusOK, body |-> [shareable_link |-> share.Token],
                   created |-> {share}]

\* ShareWishlist: the response, and the share row it inserts (or none).
ShareWishlist(userID, wishlistID, dbErr) ==
    IF userID = NoUser
    THEN Error(StatusUnauthorized, "User not authenticated") @@ [created |-> {}]
    ELSE IF dbErr = 1
    THEN Error(StatusInternalServerError, "Error fetching wishlist") @@ [created |-> {}]
    ELSE IF ByID(wishlists, wishlistID) = {}
    THEN Error(StatusNotFound, "Wishlist not found") @@ [created |-> {}]
    ELSE LET wishlist == CHOOSE w \in ByID(wishlists, wishlistID) : TRUE
             share == [ID |-> NewID(shares), WishlistID |-> wishlistID,
                       Token |-> NewID(shares), ExpiresAt |-> ZeroTime]
         IN  IF wishlist.UserID # userID
             THEN Error(StatusForbidden, "Only the creator can share the wishlist")
                  @@ [created |-> {}]
             ELSE IF dbErr = 2
             THEN Error(StatusInternalServerError, "Error generating shareable link")
                  @@ [created |-> {}]
             ELSE [status |-> StatusOK, body |-> [shareable_link |-> share.Token],
                   created |-> {share}]

\* ----------------------------------------------------------- item handlers
\* AddItem without its ownership check.
AddItem_NoOwnerCheck(userID, wishlistID, name, dbErr) ==
    IF name = ""
    THEN Error(StatusBadRequest, "binding") @@ [created |-> {}]
    ELSE IF userID = NoUser
    THEN Error(StatusUnauthorized, "User not authenticated") @@ [created |-> {}]
    ELSE IF dbErr = 1
    THEN Error(StatusInternalServerError, "Error fetching wishlist") @@ [created |-> {}]
    ELSE IF ByID(wishlists, wishlistID) = {}
    THEN Error(StatusNotFound, "Wishlist not found") @@ [created |-> {}]
    ELSE LET item == [ID |-> NewID(items), WishlistID |-> wishlistID, Name |-> name,
                      Description |-> "", Purchased |-> FALSE, CreatedAt |-> "ts"]
         IN  IF dbErr = 2
             THEN Error(StatusInternalServerError, "Error adding item")
                  @@ [created |-> {}]
             ELSE [status |-> StatusOK, body |-> [item |-> item], created |-> {item}]

\* AddItem: the response, and the item row it inserts (or none).
AddItem(userID, wishlistID, name, dbErr) ==
    IF name = ""
    THEN Error(StatusBadRequest, "binding") @@ [created |-> {}]
    ELSE IF userID = NoUser
    THEN Error(StatusUnauthorized, "User not authenticated") @@ [created |-> {}]
    ELSE IF dbErr = 1
    THEN Error(StatusInternalServerError, "Error fetching wishlist") @@ [created |-> {}]
    ELSE IF ByID(wishlists, wishlistID) = {}
    THEN Error(StatusNotFound, "Wishlist not found") @@ [created |-> {}]
    ELSE LET wishlist == CHOOSE w \in ByID(wishlists, wishlistID) : TRUE
             item == [ID |-> NewID(items), WishlistID |-> wishlistID, Name |-> name,
                      Description |-> "", Purchased |-> FALSE, CreatedAt |-> "ts"]
         IN  IF wishlist.UserID # userID
             THEN Error(StatusForbidden, "Only the creator can add items")
                  @@ [created |-> {}]
             ELSE IF dbErr = 2
             THEN Error(StatusInternalServerError, "Error adding item")
                  @@ [created |-> {}]
             ELSE [status |-> StatusOK, body |-> [item |-> item], created |-> {item}]

\* A PurchaseItem request that has answered.
Done(req, status) == [req EXCEPT !.pc = "done", !.status = status]

\* PurchaseItemLookup taking any error of the item query but a storage
\* failure as success, so that an unknown id goes on to the purchase check.
PurchaseItemLookup_NoNotFound(req, dbErr) ==
    IF req.userID = NoUser
    THEN Done(req, StatusUnauthorized)
    ELSE IF dbErr
    THEN Done(req, StatusInternalServerError)
    ELSE [req EXCEPT !.pc = "check"]

\* PurchaseItem up to its first database call: the identity check and the
\* lookup of the item.  `req` carries the request's parameters.
PurchaseItemLookup(req, dbErr) ==
    IF req.userID = NoUser
    THEN Done(req, StatusUnauthorized)
    ELSE IF dbErr
    THEN Done(req, StatusInternalServerError)
    ELSE IF ByID(items, req.itemID) = {}
    THEN Done(req, StatusNotFound)
    ELSE [req EXCEPT !.pc = "check"]

\* "Check if the item is already purchased by this user": err == nil only when
\* the query ran and matched a row; a failed query is taken as no purchase.
PurchaseItemCheck(req, dbErr) ==
    LET existingPurchase == {p \in purchases : p.ItemID = req.itemID
                                               /\ p.UserID = req.userID}
        errIsNil == ~dbErr /\ existingPurchase # {}
    IN  IF errIsNil
        THEN Done(req, StatusBadRequest)
        ELSE [req EXCEPT !.pc = "insert"]

\* PurchaseItemCreate writing the owner of the item's wishlist as the buyer.
PurchaseItemCreate_OwnerAsBuyer(req, dbErr) ==
    LET item == CHOOSE i \in items : i.ID = req.itemID
        owner == CHOOSE w \in wishlists : w.ID = item.WishlistID
        purchase == [ID |-> NewID(purchases), ItemID |-> req.itemID,
                     UserID |-> owner.UserID]
    IN  IF dbErr
        THEN [req |-> Done(req, StatusInternalServerError), created |-> {}]
        ELSE [req |-> [req EXCEPT !.pc = "update"], created |-> {purchase}]

\* "Create a purchase record": the request after DB.Create, and the row.
PurchaseItemCreate(req, dbErr) ==
    LET purchase == [ID |-> NewID(purchases), ItemID |-> req.itemID,
                     UserID |-> req.userID]
    IN  IF dbErr
        THEN [req |-> Done(req, StatusInternalServerError), created |-> {}]
        ELSE [req |-> [req EXCEPT !.pc = "update"], created |-> {purchase}]

\* PurchaseItemUpdate writing the negation of the flag it read with the item
\* (Update("purchased", !item.Purchased)) instead of true.
PurchaseItemUpdate_Toggle(req, dbErr) ==
    [items |-> IF dbErr
               THEN items
               ELSE {IF i.ID = req.itemID THEN [i EXCEPT !.Purchased = ~i.Purchased]
                     ELSE i : i \in items},
     req |-> Done(req, StatusOK)]

\* DB.Model(&item).Update("purchased", true), whose error is not looked at,
\* and the 200 that follows: the items table and the request afterwards.
PurchaseItemUpdate(req, dbErr) ==
    [items |-> IF dbErr
               THEN items
               ELSE {IF i.ID = req.itemID THEN [i EXCEPT !.Purchased = TRUE] ELSE i :
                         i \in items},
     req |-> Done(req, StatusOK)]

\* ------------------------------------------------------ shared-link handler
\* SharedItem that marks an item for any authenticated viewer once somebody
\* has purchased it.
SharedItem_AnyPurchaser(item, userID, isAuthenticated) ==
    LET sharedItem == [id |-> item.ID, name |-> item.Name,
                       description |-> item.Description,
                       purchased |-> item.Purchased]
    IN  IF isAuthenticated /\ PurchasesOf(item.ID) # {}
        THEN sharedItem @@ [purchased_by |-> "You"]
        ELSE sharedItem

\* SharedItem that names the purchasers of an item to every viewer.
SharedItem_NamesPurchasers(item, userID, isAuthenticated) ==
    LET sharedItem == [id |-> item.ID, name |-> item.Name,
                       description |-> item.Description,
                       purchased |-> item.Purchased]
    IN  IF PurchasesOf(item.ID) # {}
        THEN sharedItem @@ [purchased_by |-> {p.UserID : p \in PurchasesOf(item.ID)}]
        ELSE sharedItem

\* SharedItem that derives purchased from the preloaded Purchases of the item
\* instead of reading the item's column.
SharedItem_DerivedPurchased(item, userID, isAuthenticated) ==
    LET sharedItem == [id |-> item.ID, name |-> item.Name,
                       description |-> item.Description,
                       purchased |-> PurchasesOf(item.ID) # {}]
        mine == isAuthenticated
                /\ \E purchase \in PurchasesOf(item.ID) : purchase.UserID = userID
    IN  IF mine THEN sharedItem @@ [purchased_by |-> "You"] ELSE sharedItem

\* The item of the shared view: SharedItem as JSON, purchased_by left out
\* when empty (omitempty).
SharedItem(item, userID, isAuthenticated) ==
    LET sharedItem == [id |-> item.ID, name |-> item.Name,
                       description |-> item.Description,
                       purchased |-> item.Purchased]
        mine == isAuthenticated
                /\ \E purchase \in PurchasesOf(item.ID) : purchase.UserID = userID
    IN  IF mine THEN sharedItem @@ [purchased_by |-> "You"] ELSE sharedItem

\* The expiry check with its comment marks removed:
\* time.Now().After(share.ExpiresAt), which the zero time satisfies too.
ShareExpired_Checked(share) == share.ExpiresAt \in {ZeroTime, PastTime}

\* "Optionally, check if the share link has expired": the check is commented
\* out, so no share is taken as expired and ExpiresAt is not read.
ShareExpired(share) == FALSE

\* GetSharedWishlist: the response.
GetSharedWishlist(userID, shareToken, dbErr) ==
    IF dbErr = 1
    THEN Error(StatusInternalServerError, "Error fetching share link")
    ELSE IF {s \in shares : s.Token = shareToken} = {}
    THEN Error(StatusNotFound, "Invalid or expired share link")
    ELSE LET share == CHOOSE s \in shares : s.Token = shareToken
             isAuthenticated == userID # NoUser
         IN  IF ShareExpired(share)
             THEN Error(StatusGone, "Share link has expired")
             ELSE IF dbErr = 2 \/ ByID(wishlists, share.WishlistID) = {}
             THEN Error(StatusInternalServerError, "Error fetching wishlist")
             ELSE LET wishlist == CHOOSE w \in ByID(wishlists, share.WishlistID) : TRUE
                  IN  [status |-> StatusOK,
                       body |-> [wishlist |->
                           [id |-> wishlist.ID, title |-> wishlist.Title,
                            description |-> wishlist.Description,
                            created_at |-> wishlist.CreatedAt,
                            items |-> {SharedItem(i, userID, isAuthenticated) :
                                           i \in ItemsOf(wishlist.ID)}]]]

\* ------------------------------------------------------------------ routes
\* The response of a route: the middleware's, or the handler's.
PostWishlistResponse(cred, title, dbErr) ==
    LET ctx == RouteContext("/wishlists", cred)
    IN  IF ctx.abort THEN MiddlewareAbort @@ [created |-> {}]
        ELSE CreateWishlist(ctx.userID, title, dbErr)

GetWishlistResponse(cred, wishlistID, dbErr) ==
    LET ctx == RouteContext("/wishlists/:id", cred)
    IN  IF ctx.abort THEN MiddlewareAbort
        ELSE GetWishlist(ctx.userID, wishlistID, dbErr)

PostShareResponse(cred, wishlistID, dbErr) ==
    LET ctx == RouteContext("/wishlists/:id/share", cred)
    IN  IF ctx.abort THEN MiddlewareAbort @@ [created |-> {}]
        ELSE ShareWishlist(ctx.userID, wishlistID, dbErr)

PostItemResponse(cred, wishlistID, name, dbErr) ==
    LET ctx == RouteContext("/wishlists/:id/items", cred)
    IN  IF ctx.abort THEN MiddlewareAbort @@ [created |-> {}]
        ELSE AddItem(ctx.userID, wishlistID, name, dbErr)

GetSharedResponse(cred, shareToken, dbErr) ==
    LET ctx == RouteContext("/shared/:token", cred)
    IN  IF ctx.abort THEN MiddlewareAbort
        ELSE GetSharedWishlist(ctx.userID, shareToken, dbErr)

\* ------------------------------------------------------------------ actions
\* POST /wishlists
PostWishlist(cred, title, dbErr) ==
    LET r == PostWishlistResponse(cred, title, dbErr)
    IN  /\ r.created = {} \/ Cardinality(wishlists) < MaxWishlists
        /\ wishlists' = wishlists \cup r.created
        /\ UNCHANGED <<items, purchases, shares, reqs, issued, succeeded>>

\* GET /wishlists/:id
GetWishlistRoute(cred, wishlistID, dbErr) ==
    /\ GetWishlistResponse(cred, wishlistID, dbErr).status >= StatusOK
    /\ UNCHANGED vars

\* POST /wishlists/:id/share; the link of a 200 response is in the caller's
\* hands from then on.
PostShare(cred, wishlistID, dbErr) ==
    LET r == PostShareResponse(cred, wishlistID, dbErr)
    IN  /\ r.created = {} \/ Cardinality(shares) < MaxShares
        /\ shares' = shares \cup r.created
        /\ issued' = IF r.status = StatusOK
                     THEN issued \cup {[token |-> r.body.shareable_link,
                                        wishlistID |-> wishlistID]}
                     ELSE issued
        /\ UNCHANGED <<wishlists, items, purchases, reqs, succeeded>>

\* POST /wishlists/:id/items
PostItem(cred, wishlistID, name, dbErr) ==
    LET r == PostItemResponse(cred, wishlistID, name, dbErr)
    IN  /\ r.created = {} \/ Cardinality(items) < MaxItems
        /\ items' = items \cup r.created
        /\ UNCHANGED <<wishlists, purchases, shares, reqs, issued, succeeded>>

\* GET /shared/:token
GetSharedRoute(cred, shareToken, dbErr) ==
    /\ GetSharedResponse(cred, shareToken, dbErr).status >= StatusOK
    /\ UNCHANGED vars

\* The requests of PurchaseItem between their first and last database call.
InFlight == {r \in Slots : reqs[r].pc # "idle"}

\* A request after a step: out of its slot once it has answered.
Settle(req) == IF req.pc = "done" THEN IdleReq ELSE req

\* The purchases answered 200, after a step that left a request as `req`.
Answered(req) ==
    IF req.pc = "done" /\ req.status = StatusOK
    THEN succeeded \cup {[userID |-> req.userID, itemID |-> req.itemID]}
    ELSE succeeded

\* PUT /items/:id/purchase arrives in slot r and runs up to its item lookup.
\* prior: a request of the same user for the same item was answered 200
\* before this one arrived.
PutPurchase(r, cred, itemID, dbErr) ==
    LET ctx == RouteContext("/items/:id/purchase", cred)
        req == [pc |-> "lookup", cred |-> cred, userID |-> ctx.userID,
                itemID |-> itemID, status |-> 0,
                prior |-> [userID |-> ctx.userID, itemID |-> itemID] \in succeeded]
    IN  /\ reqs[r].pc = "idle"
        /\ Cardinality(purchases) + Cardinality(InFlight) < MaxPurchases
        /\ reqs' = [reqs EXCEPT ![r] = Settle(IF ctx.abort
                                              THEN Done(req, StatusUnauthorized)
                                              ELSE PurchaseItemLookup(req, dbErr))]
        /\ UNCHANGED <<wishlists, items, purchases, shares, issued, succeeded>>

\* Slot r runs its existing-purchase query.
StepCheck(r, dbErr) ==
    /\ reqs[r].pc = "check"
    /\ reqs' = [reqs EXCEPT ![r] = Settle(PurchaseItemCheck(reqs[r], dbErr))]
    /\ UNCHANGED <<wishlists, items, purchases, shares, issued, succeeded>>

\* Slot r runs its insert.
StepCreate(r, dbErr) ==
    /\ reqs[r].pc = "insert"
    /\ LET c == PurchaseItemCreate(reqs[r], dbErr)
       IN  /\ reqs' = [reqs EXCEPT ![r] = Settle(c.req)]
           /\ purchases' = purchases \cup c.created
    /\ UNCHANGED <<wishlists, items, shares, issued, succeeded>>

\* Slot r runs its flag update and answers 200.
StepUpdate(r, dbErr) ==
    /\ reqs[r].pc = "update"
    /\ LET u == PurchaseItemUpdate(reqs[r], dbErr)
       IN  /\ items' = u.items
           /\ reqs' = [reqs EXCEPT ![r] = Settle(u.req)]
           /\ succeeded' = Answered(u.req)
    /\ UNCHANGED <<wishlists, purchases, shares, issued>>

\* One request or one step of a request, its failing database call (0: none)
\* drawn from Faults.
Step(Faults) ==
    \/ \E cred \in Callers, title \in Titles, dbErr \in Faults \cap {0, 1} :
           PostWishlist(cred, title, dbErr)
    \/ \E cred \in Callers, id \in 1..MaxWishlists, dbErr \in Faults \cap {0, 1} :
           GetWishlistRoute(cred, id, dbErr)
    \/ \E cred \in Callers, id \in 1..MaxWishlists, dbErr \in Faults :
           PostShare(cred, id, dbErr)
    \/ \E cred \in Callers, id \in 1..MaxWishlists, name \in Names, dbErr \in Faults :
           PostItem(cred, id, name, dbErr)
    \/ \E cred \in Callers, token \in 1..MaxShares, dbErr \in Faults :
           GetSharedRoute(cred, token, dbErr)
    \/ \E r \in Slots, cred \in Callers, id \in 1..MaxItems, dbErr \in Faults \cap {0, 1} :
           PutPurchase(r, cred, id, dbErr = 1)
    \/ \E r \in Slots, dbErr \in Faults \cap {0, 1} : StepCheck(r, dbErr = 1)
    \/ \E r \in Slots, dbErr \in Faults \cap {0, 1} : StepCreate(r, dbErr = 1)
    \/ \E r \in Slots, dbErr \in Faults \cap {0, 1} : StepUpdate(r, dbErr = 1)

\* The routes as registered, over a store whose calls can fail.
Next == Step(0..2)
Spec == Init /\ [][Next]_vars

\* The routes as registered, over a store whose calls all succeed.
NextReliable == Step({0})
SpecReliable == Init /\ [][NextReliable]_vars

\* ================================================================== claims

\* C1: in every reachable state, the states between the steps of a
\* PurchaseItem request and those after a failed storage write included, an
\* item's purchased flag is true if and only if some Purchase references it.
C1_PurchasedIffPurchase ==
    \A i \in items : i.Purchased <=> PurchasesOf(i.ID) # {}

\* C2: under any interleaving of concurrent PurchaseItem requests, at most one
\* Purchase exists for a pair (item_id, user_id).
C2_AtMostOnePurchasePerPair ==
    \A p, q \in purchases :
        (p.ItemID = q.ItemID /\ p.UserID = q.UserID) => p = q

\* C3: a PurchaseItem request of user U for item I that arrives after an
\* earlier one of U for I was answered 200 is answered 400 by the
\* existing-purchase check and never reaches the insert or the flag update,
\* so the purchases and the flags stay as they were.
C3_SecondAttemptRejected ==
    \A r \in Slots :
        reqs[r].prior =>
            /\ reqs[r].pc = "check"
            /\ PurchaseItemCheck(reqs[r], FALSE) = Done(reqs[r], StatusBadRequest)

\* The fields of an item in the response of GetWishlist.
OwnerItemFields == {"id", "name", "description", "purchased", "created_at"}

\* C4: the owner view of GetWishlist carries no purchased_by field and no
\* purchaser id for any item, whoever calls and however many Purchases the
\* items have.
C4_OwnerViewHidesPurchasers ==
    \A userID \in Callers, id \in 1..MaxWishlists, dbErr \in 0..1 :
        LET r == GetWishlist(userID, id, dbErr)
        IN  r.status = StatusOK =>
                /\ DOMAIN r.body = {"id", "title", "description", "created_at", "items"}
                /\ \A it \in r.body.items :
                       /\ "purchased_by" \notin DOMAIN it
                       /\ DOMAIN it = OwnerItemFields
                       /\ {it.name, it.description, it.created_at} \cap Users = {}

\* An owner reads a wishlist one of whose items two Purchases reference.
C4_Witness ==
    \E w \in wishlists :
        LET r == GetWishlistResponse(w.UserID, w.ID, 0)
        IN  /\ r.status = StatusOK
            /\ \E it \in r.body.items :
                   it.purchased /\ Cardinality(PurchasesOf(it.id)) >= 2

\* C5: in the shared view of GetSharedWishlist an item carries purchased_by
\* only if the identity the handler sees is the user_id of a Purchase of that
\* item; every other viewer gets no purchaser field, and the field never holds
\* a user id.
C5_PurchasedByOnlyForPurchaser ==
    \A userID \in Callers, token \in 1..MaxShares, dbErr \in 0..2 :
        LET r == GetSharedWishlist(userID, token, dbErr)
        IN  r.status = StatusOK =>
                \A it \in r.body.wishlist.items :
                    /\ DOMAIN it \subseteq {"id", "name", "description", "purchased",
                                           "purchased_by"}
                    /\ "purchased_by" \in DOMAIN it =>
                           /\ userID \in Users
                           /\ \E p \in purchases : p.ItemID = it.id /\ p.UserID = userID
                           /\ it.purchased_by \notin Users

\* A purchaser's shared view marks the item they purchased and not the one
\* somebody else purchased.
C5_Witness ==
    \E userID \in Users, s \in shares :
        LET r == GetSharedWishlist(userID, s.Token, 0)
        IN  /\ r.status = StatusOK
            /\ \E a, b \in r.body.wishlist.items :
                   /\ "purchased_by" \in DOMAIN a
                   /\ "purchased_by" \notin DOMAIN b
                   /\ PurchasesOf(b.id) # {}

\* C6: after user B's purchase of item I was answered 200, GET /shared/T with
\* B's credential, T a token of I's wishlist, shows I with purchased = true
\* and purchased_by = "you" (in either case of the letter y).
C6_PurchaserSeesOwnPurchase ==
    \A s \in succeeded, sh \in shares :
        (\E i \in ItemsOf(sh.WishlistID) : i.ID = s.itemID) =>
            LET r == GetSharedResponse(s.userID, sh.Token, 0)
            IN  /\ r.status = StatusOK
                /\ \A it \in r.body.wishlist.items :
                       it.id = s.itemID =>
                           /\ it.purchased
                           /\ "purchased_by" \in DOMAIN it
                           /\ it.purchased_by \in {"you", "You"}

\* C7: GetWishlist of an existing wishlist by an authenticated caller who does
\* not own it answers 403 (500 when the lookup fails in storage), and the
\* response holds an error message only: no title, description or items.
C7_NonOwnerForbidden ==
    \A w \in wishlists, cred \in Users, dbErr \in 0..1 :
        cred # w.UserID =>
            LET r == GetWishlistResponse(cred, w.ID, dbErr)
            IN  /\ r.status = IF dbErr = 0 THEN StatusForbidden
                              ELSE StatusInternalServerError
                /\ DOMAIN r.body = {"error"}
                /\ r.body.error \notin {w.Title, w.Description}

\* A non-owner asks for a wishlist that has an item, and is refused.
C7_Witness ==
    \E w \in wishlists, cred \in Users :
        /\ cred # w.UserID
        /\ ItemsOf(w.ID) # {}
        /\ GetWishlistResponse(cred, w.ID, 0).status = StatusForbidden

\* Share.ExpiresAt is set and lies in the past.
Expired(share) == share.ExpiresAt # ZeroTime /\ share.ExpiresAt = PastTime

C9_IssuedTokenStaysValid ==
    \A l \in issued, cred \in Callers, dbErr \in 0..2 :
        LET r == GetSharedResponse(cred, l.token, dbErr)
        IN  /\ r.status = IF dbErr = 0 THEN StatusOK ELSE StatusInternalServerError
            /\ r.status = StatusOK => r.body.wishlist.id = l.wishlistID

\* Two tokens have been handed out for one wishlist.
C9_Witness ==
    \E a, b \in issued :
        /\ a.token # b.token
        /\ a.wishlistID = b.wishlistID
        /\ GetSharedResponse(NoUser, a.token, 0).status = StatusOK
        /\ GetSharedResponse(NoUser, b.token, 0).status = StatusOK

\* C10: AddItem and ShareWishlist answer 200 only to the owner of the
\* wishlist; to an authenticated non-owner they answer 403 (400 for a body
\* without a name, 500 when the lookup fails in storage) and insert no row.
C10_OnlyOwnerAddsAndShares ==
    /\ \A cred \in Callers, id \in 1..MaxWishlists, name \in Names, dbErr \in 0..2 :
           LET a == PostItemResponse(cred, id, name, dbErr)
               h == PostShareResponse(cred, id, dbErr)
               owned == \E w \in wishlists : w.ID = id /\ w.UserID = cred
           IN  /\ a.status = StatusOK => owned
               /\ h.status = StatusOK => owned
               /\ a.status # StatusOK => a.created = {}
               /\ h.status # StatusOK => h.created = {}
    /\ \A w \in wishlists, cred \in Users, name \in Names, dbErr \in 0..2 :
           cred # w.UserID =>
               LET a == PostItemResponse(cred, w.ID, name, dbErr)
                   h == PostShareResponse(cred, w.ID, dbErr)
               IN  /\ a.created = {} /\ h.created = {}
                   /\ (dbErr = 0 /\ name # "") => a.status = StatusForbidden
                   /\ dbErr = 0 => h.status = StatusForbidden

\* The owner has added an item to a wishlist and shared it; a non-owner is
\* refused both, where the owner's same requests would insert rows.
C10_Witness ==
    \E w \in wishlists, cred \in Users :
        /\ cred # w.UserID
        /\ ItemsOf(w.ID) # {}
        /\ \E l \in issued : l.wishlistID = w.ID
        /\ Cardinality(items) < MaxItems
        /\ PostItemResponse(cred, w.ID, "Trek 520", 0).status = StatusForbidden
        /\ PostShareResponse(cred, w.ID, 0).status = StatusForbidden
        /\ PostItemResponse(w.UserID, w.ID, "Trek 520", 0).created # {}
        /\ PostShareResponse(w.UserID, w.ID, 0).created # {}

\* A PurchaseItem request of `userID` for `itemID` as it enters the handler.
Request(userID, itemID) ==
    [IdleReq EXCEPT !.pc = "lookup", !.cred = userID, !.userID = userID,
                    !.itemID = itemID]

\* The Purchases `userID` holds on item `itemID`.
Held(userID, itemID) ==
    {p \in purchases : p.ItemID = itemID /\ p.UserID = userID}

\* C11: an authenticated user who holds no Purchase on an existing item gets
\* through every step of PurchaseItem to the 200, whoever else holds Purchases
\* on the item and whoever owns its wishlist; and every user whose purchase
\* was answered 200 holds exactly one Purchase on the item, whose purchased
\* flag is true.
C11_AnyUserCanPurchase ==
    /\ \A userID \in Users, i \in items :
           Held(userID, i.ID) = {} =>
               LET l == PurchaseItemLookup(Request(userID, i.ID), FALSE)
                   c == PurchaseItemCheck(l, FALSE)
                   n == PurchaseItemCreate(c, FALSE)
                   u == PurchaseItemUpdate(n.req, FALSE)
               IN  /\ l.pc = "check"
                   /\ c.pc = "insert"
                   /\ n.req.pc = "update"
                   /\ n.created # {}
                   /\ u.req.status = StatusOK
    /\ \A s \in succeeded :
           /\ Cardinality(Held(s.userID, s.itemID)) = 1
           /\ \A i \in ByID(items, s.itemID) : i.Purchased

\* C12: PurchaseItem with an id that matches no Item answers 404 at the item
\* lookup (storage answering the query) and goes no further: no request gets
\* past the lookup with such an id, so no Purchase is inserted for it and no
\* flag update runs.
C12_UnknownItemNotFound ==
    /\ \A userID \in Users, id \in 1..MaxItems :
           ByID(items, id) = {} =>
               PurchaseItemLookup(Request(userID, id), FALSE)
                   = Done(Request(userID, id), StatusNotFound)
    /\ \A r \in InFlight : ByID(items, reqs[r].itemID) # {}
    /\ \A p \in purchases : ByID(items, p.ItemID) # {}

\* An item has been purchased while another id matches no item: a request
\* naming that id is answered 404.
C12_Witness ==
    \E userID \in Users, id \in 1..MaxItems :
        /\ ByID(items, id) = {}
        /\ purchases # {}
        /\ \E i \in items : i.Purchased
        /\ PurchaseItemLookup(Request(userID, id), FALSE).status = StatusNotFound

\* C13: a 200 of GetSharedWishlist for the token of a Share row carries the
\* wishlist that row names (the one ShareWishlist wrote it for), with exactly
\* the items that belong to that wishlist now and their flags as they are
\* now; every viewer, owner or not, authenticated or not, gets the 200 when
\* storage answers.
C13_SharedViewIsTheSharedWishlist ==
    /\ \A l \in issued :
           \E s \in shares : s.Token = l.token /\ s.WishlistID = l.wishlistID
    /\ \A s \in shares, userID \in Callers, dbErr \in 0..2 :
           LET r == GetSharedWishlist(userID, s.Token, dbErr)
           IN  /\ dbErr = 0 => r.status = StatusOK
               /\ r.status = StatusOK =>
                      /\ \E w \in wishlists :
                             /\ w.ID = s.WishlistID
                             /\ r.body.wishlist.id = w.ID
                             /\ r.body.wishlist.title = w.Title
                             /\ r.body.wishlist.description = w.Description
                      /\ {<<it.id, it.name, it.purchased>> : it \in r.body.wishlist.items}
                             = {<<i.ID, i.Name, i.Purchased>> :
                                    i \in {j \in items : j.WishlistID = s.WishlistID}}

\* A viewer who does not own the wishlist, and an anonymous one, read it
\* through its link while it holds a purchased item and another wishlist
\* holds an item too.
C13_Witness ==
    \E s \in shares, w \in wishlists, userID \in Users :
        /\ w.ID = s.WishlistID
        /\ userID # w.UserID
        /\ GetSharedWishlist(userID, s.Token, 0).status = StatusOK
        /\ GetSharedWishlist(NoUser, s.Token, 0).status = StatusOK
        /\ \E i \in items : i.WishlistID = w.ID /\ i.Purchased
        /\ \E i \in items : i.WishlistID # w.ID

\* C14: a storage failure at any database call of PurchaseItem ends the
\* request there with 500: the item lookup, the existing-purchase query (no
\* insert follows), the insert (no row), the flag update.
C14_StorageFailureEndsRequest ==
    /\ \A userID \in Users, id \in 1..MaxItems :
           PurchaseItemLookup(Request(userID, id), TRUE)
               = Done(Request(userID, id), StatusInternalServerError)
    /\ \A r \in Slots :
           /\ reqs[r].pc = "check" =>
                  PurchaseItemCheck(reqs[r], TRUE)
                      = Done(reqs[r], StatusInternalServerError)
           /\ reqs[r].pc = "insert" =>
                  PurchaseItemCreate(reqs[r], TRUE)
                      = [req |-> Done(reqs[r], StatusInternalServerError),
                         created |-> {}]
           /\ reqs[r].pc = "update" =>
                  PurchaseItemUpdate(reqs[r], TRUE).req
                      = Done(reqs[r], StatusInternalServerError)

\* C15: no step turns a purchased flag from true to false, and no step
\* removes an item whose flag is true.
C15_PurchasedMonotonic ==
    [][\A i \in items :
           i.Purchased => \E j \in items' : j.ID = i.ID /\ j.Purchased]_vars

\* An item's flag is true while a later request for the same item stands
\* before its own flag update.
C15_Witness ==
    \E i \in items, r \in Slots :
        /\ i.Purchased
        /\ reqs[r].pc = "update"
        /\ reqs[r].itemID = i.ID

\* C16: GetWishlist, ShareWishlist and AddItem (with a well-formed body,
\* storage answering) look the wishlist up before they compare its owner: an
\* authenticated caller gets 404 for an id that matches no wishlist, and 403
\* exactly when the wishlist exists and somebody else owns it.
C16_NotFoundBeforeForbidden ==
    \A cred \in Users, id \in 1..MaxWishlists :
        LET exists == ByID(wishlists, id) # {}
            foreign == \E w \in wishlists : w.ID = id /\ w.UserID # cred
            statuses == {GetWishlistResponse(cred, id, 0).status,
                         PostShareResponse(cred, id, 0).status,
                         PostItemResponse(cred, id, "Trek 520", 0).status}
        IN  /\ ~exists => statuses = {StatusNotFound}
            /\ foreign => statuses = {StatusForbidden}
            /\ StatusForbidden \in statuses => foreign

\* One caller names a wishlist that does not exist and one that somebody
\* else owns and has shared.
C16_Witness ==
    \E cred \in Users, w \in wishlists, id \in 1..MaxWishlists :
        /\ w.UserID # cred
        /\ \E l \in issued : l.wishlistID = w.ID
        /\ ByID(wishlists, id) = {}
        /\ PostShareResponse(cred, id, 0).status = StatusNotFound
        /\ PostShareResponse(cred, w.ID, 0).status = StatusForbidden

\* C17: in the state in which a PurchaseItem request for (item I, user U) is
\* answered 200, a Purchase for (I, U) exists and I's purchased flag is true.
C17_SuccessMeansPurchased ==
    [][\A r \in Slots :
           (reqs[r].pc = "update" /\ reqs'[r].pc = "idle") =>
               /\ \E p \in purchases' :
                      p.ItemID = reqs[r].itemID /\ p.UserID = reqs[r].userID
               /\ \A i \in items' : i.ID = reqs[r].itemID => i.Purchased]_vars

\* C18: every Purchase that a step inserts comes from a request standing at
\* its insert, carries the identity of that request's caller as user_id and
\* the request's item, an existing one, as item_id.
C18_PurchaseAttributedToCaller ==
    [][\A p \in purchases' \ purchases :
           \E r \in Slots :
               /\ reqs[r].pc = "insert"
               /\ reqs'[r] # reqs[r]
               /\ reqs[r].cred \in Users
               /\ p.UserID = reqs[r].cred
               /\ p.UserID = reqs[r].userID
               /\ p.ItemID = reqs[r].itemID
               /\ ByID(items, p.ItemID) # {}]_vars

\* Somebody who does not own the wishlist holds a Purchase on one of its
\* items while another user's request for the same item is in flight.
C18_Witness ==
    \E p \in purchases, i \in items, w \in wishlists, r \in Slots :
        /\ p.ItemID = i.ID
        /\ i.WishlistID = w.ID
        /\ p.UserID # w.UserID
        /\ reqs[r].pc \in {"check", "insert"}
        /\ reqs[r].itemID = i.ID
        /\ reqs[r].userID # p.UserID

\* The owner's response of GetWishlist for w, written from the rows of
\* wishlists and items alone.
OwnerResponseFromRows(w) ==
    [status |-> StatusOK,
     body |-> [id |-> w.ID, title |-> w.Title, description |-> w.Description,
               created_at |-> w.CreatedAt,
               items |-> {[id |-> i.ID, name |-> i.Name,
                           description |-> i.Description,
                           purchased |-> i.Purchased, created_at |-> i.CreatedAt] :
                              i \in {j \in items : j.WishlistID = w.ID}}]]

\* The anonymous response of GetSharedWishlist for w, written from the rows
\* of wishlists and items alone.
AnonymousResponseFromRows(w) ==
    [status |-> StatusOK,
     body |-> [wishlist |->
         [id |-> w.ID, title |-> w.Title, description |-> w.Description,
          created_at |-> w.CreatedAt,
          items |-> {[id |-> i.ID, name |-> i.Name, description |-> i.Description,
                      purchased |-> i.Purchased] :
                         i \in {j \in items : j.WishlistID = w.ID}}]]]

\* C19: what the owner gets from GetWishlist and what an anonymous viewer
\* gets from GetSharedWishlist is fixed by the rows of wishlists, items and
\* shares: it is the same in any two states that agree on those rows, whoever
\* holds the Purchases; and a step that changes the Purchases and leaves
\* those rows alone leaves both responses as they were.
C19_PurchasersDoNotShowToOthers ==
    /\ [](\A w \in wishlists :
              /\ GetWishlist(w.UserID, w.ID, 0) = OwnerResponseFromRows(w)
              /\ \A s \in shares :
                     s.WishlistID = w.ID =>
                         GetSharedWishlist(NoUser, s.Token, 0)
                             = AnonymousResponseFromRows(w))
    /\ [][(purchases' # purchases
            /\ wishlists' = wishlists /\ items' = items /\ shares' = shares) =>
              \A userID \in Users, id \in 1..MaxWishlists, token \in 1..MaxShares :
                  /\ GetWishlist(userID, id, 0)' = GetWishlist(userID, id, 0)
                  /\ GetSharedWishlist(NoUser, token, 0)'
                         = GetSharedWishlist(NoUser, token, 0)]_vars

\* A shared wishlist holds a purchased item whose one purchaser is not the
\* owner; the owner and an anonymous viewer read it.
C19_Witness ==
    \E w \in wishlists, s \in shares, i \in items :
        /\ s.WishlistID = w.ID
        /\ i.WishlistID = w.ID
        /\ i.Purchased
        /\ {p.UserID : p \in PurchasesOf(i.ID)} \in {{u} : u \in Users \ {w.UserID}}
        /\ GetWishlistResponse(w.UserID, w.ID, 0).status = StatusOK
        /\ GetSharedResponse(NoUser, s.Token, 0).status = StatusOK

\* C20 as stated: in one state the owner view and the shared view of a
\* wishlist, for any of its tokens and any viewer, list the same item ids
\* with the same purchased values, and an item of the shared view is the item
\* of the owner view but for the purchased_by annotation.
C20_ViewsDifferOnlyInPurchasedBy ==
    \A w \in wishlists, s \in shares, userID \in Callers :
        s.WishlistID = w.ID =>
            LET o == GetWishlist(w.UserID, w.ID, 0).body.items
                v == GetSharedWishlist(userID, s.Token, 0).body.wishlist.items
            IN  /\ {<<a.id, a.purchased>> : a \in o} = {<<b.id, b.purchased>> : b \in v}
                /\ \A a \in o, b \in v :
                       a.id = b.id =>
                           /\ DOMAIN b \ {"purchased_by"} = DOMAIN a
                           /\ \A f \in DOMAIN a : a[f] = b[f]

\* C20, amended: the two views list the same item ids with the same
\* purchased values (and names and descriptions); their items differ only in
\* purchased_by, which the shared view alone may carry, and in created_at,
\* which the owner view alone carries.
C20_ViewsAgreeOnItems ==
    \A w \in wishlists, s \in shares, userID \in Callers :
        s.WishlistID = w.ID =>
            LET o == GetWishlist(w.UserID, w.ID, 0).body.items
                v == GetSharedWishlist(userID, s.Token, 0).body.wishlist.items
            IN  /\ {<<a.id, a.purchased>> : a \in o} = {<<b.id, b.purchased>> : b \in v}
                /\ \A a \in o, b \in v :
                       a.id = b.id =>
                           /\ DOMAIN b \ {"purchased_by"} = DOMAIN a \ {"created_at"}
                           /\ \A f \in DOMAIN a \ {"created_at"} : a[f] = b[f]

\* A shared wishlist holds an item with a Purchase whose flag is still false
\* and an item whose flag is true; its purchaser reads the shared view.
C20_Witness ==
    \E w \in wishlists, s \in shares, p \in purchases :
        /\ s.WishlistID = w.ID
        /\ \E i \in items : i.WishlistID = w.ID /\ i.ID = p.ItemID
        /\ \E i \in items : i.WishlistID = w.ID /\ i.Purchased
        /\ \E i \in items :
               i.WishlistID = w.ID /\ ~i.Purchased /\ PurchasesOf(i.ID) # {}
        /\ \E b \in GetSharedWishlist(p.UserID, s.Token, 0).body.wishlist.items :
               "purchased_by" \in DOMAIN b

====
